---- MODULE Spec2Model ----
(***************************************************************************)
(* A model of atom's ClassMap (src/atom/src/class_map.cpp): the open       *)
(* addressing table that maps an attribute name to its Member and to the   *)
(* dense index of its slot.  The model follows ClassMap_new, insert_member *)
(* and ClassMap_LookupMember statement by statement.                       *)
(*                                                                         *)
(* A uint32_t that can have its top bits set (a string hash) is the pair   *)
(* <<hi, lo>> of its 16-bit halves, since TLC's integers stop at 2^31 - 1. *)
(* Table sizes and buckets stay far below 2^16 and are plain integers.     *)
(***************************************************************************)
EXTENDS Integers, Sequences, FiniteSets, TLC

\* ------------------------------------------------------------------ bounds

\* The largest number of items of a mapping enumerated with every choice of
\* keys, values and iteration order.
MaxEntries == 4

\* The largest size of the mappings of SizeSpec (one mapping per size).
MaxSize == 24

\* The size of the largest mapping whose map is followed to its deallocation.
MaxLive == 3

\* The ClassMap_clear calls followed on one map.
MaxClears == 2

\* The ClassMap_LookupMember calls under way at the same time.
MaxThreads == 2

\* The largest table of the probe sequences followed by themselves has
\* 2^MaxProbeBits slots.
MaxProbeBits == 5

\* ----------------------------------------------------------------- objects

\* A Python object: its type, and for a string its hash and its text; id
\* tells apart two objects of equal content.
PyObj(type, hash, text, id) == [type |-> type, hash |-> hash, text |-> text, id |-> id]

NULL == PyObj("NULL", <<0, 0>>, 0, 0)

Str(hash, text, id) == PyObj("str", hash, text, id)

\* The strings the enumerated mappings draw their keys from, as <<hash,
\* text>>: two strings of equal hash (5), one that shares their first bucket
\* in a table of 4 and of 8 and leaves their probe path afterwards
\* (37 = 5 + 32), and one with every hash bit set.
KeyTexts == { <<<<0, 5>>, 1>>, <<<<0, 5>>, 2>>, <<<<0, 37>>, 3>>, <<<<65535, 65535>>, 4>> }

\* Strings no mapping holds: one with the hash of two keys, one of hash 0.
AbsentTexts == { <<<<0, 5>>, 8>>, <<<<0, 0>>, 9>> }

KeyPool == { Str(k[1], k[2], 1) : k \in KeyTexts }

IntKey == PyObj("int", <<0, 0>>, 7, 1)

D1 == PyObj("Member", <<0, 0>>, 1, 1)

D2 == PyObj("Member", <<0, 0>>, 2, 1)

\* A Member no mapping holds, and a value that is no Member.
D9 == PyObj("Member", <<0, 0>>, 9, 1)

NotAMember == PyObj("object", <<0, 0>>, 0, 1)

\* The object passed as members when it is no dict.
NotADictObject == PyObj("list", <<0, 0>>, 0, 1)

MemberPool == {D1, D2}

\* ------------------------------------------------- external collaborators

PyString_Check(o) == o.type = "str"

Member_Check(o) == o.type = "Member"

\* utils::pystr_hash: the string's hash as a uint32_t.
pystr_hash(name) == name.hash

\* utils::pystr_equal: identity first, then content.
pystr_equal(a, b) == a = b \/ (a.hash = b.hash /\ a.text = b.text)

RECURSIVE Pow2AtLeast(_, _)
Pow2AtLeast(p, n) == IF p >= n THEN p ELSE Pow2AtLeast(2 * p, n)

\* utils::next_power_of_2: the least power of two that is >= n.
next_power_of_2(n) == Pow2AtLeast(1, n)

\* py_expected_type_fail: sets a TypeError naming the object and the
\* expected type; the caller returns 0.
py_expected_type_fail(ob, expected) == [exc |-> "TypeError", ob |-> ob, expected |-> expected]

NoError == [exc |-> "none", ob |-> NULL, expected |-> ""]

PyErr_NoMemory == [exc |-> "MemoryError", ob |-> NULL, expected |-> ""]

\* ------------------------------------------------------------ 32-bit words

RECURSIVE BitAnd(_, _)
BitAnd(a, b) ==
    IF a = 0 \/ b = 0 THEN 0
    ELSE (a % 2) * (b % 2) + 2 * BitAnd(a \div 2, b \div 2)

\* hash & mask
HashAndMask(hash, mask) ==
    BitAnd(hash[2], mask % 65536) + 65536 * BitAnd(hash[1], mask \div 65536)

\* ( bucket << 2 ) + bucket + hash + 1, as a uint32_t
ProbeSum(bucket, hash) ==
    LET lo == ((bucket * 4) % 65536) + (bucket % 65536) + hash[2] + 1
        hi == ((bucket * 4) \div 65536) + (bucket \div 65536) + hash[1] + (lo \div 65536)
    IN  <<hi % 65536, lo % 65536>>

\* hash >>= 5
ShiftRight5(hash) == <<hash[1] \div 32, (hash[2] \div 32) + (hash[1] % 32) * 2048>>

\* ------------------------------------------------------------------- state

VARIABLES
    members,       \* the argument of ClassMap_new: [is_dict, items]
    pc,            \* "start", "loop", "built", "failed", "hung"
    pos,           \* items PyDict_Next has handed out
    entries,       \* map->entries: [0 .. allocated-1 -> ClassMapEntry], <<>> when NULL
    allocated,     \* map->allocated
    member_count,  \* map->member_count
    refcnt,        \* ob_refcnt of every key and value of the mapping
    self_state,    \* the ClassMap object: "none", "live", "freed"
    array_state,   \* the entry array: "none", "live", "freed"
    error,         \* the Python error indicator
    returned,      \* what ClassMap_new returned: "nothing", "self", "NULL"
    lookup,        \* the last ClassMap_LookupMember call: name, outputs before and after
    clears,        \* the ClassMap_clear calls made on the map so far
    traverse,      \* the last ClassMap_traverse call: the visits made and the value returned
    threads,       \* the ClassMap_LookupMember calls that run side by side, each at its place
    probe          \* the probing loops of insert_member and of the lookup, run on their own

vars == <<members, pc, pos, entries, allocated, member_count, refcnt,
          self_state, array_state, error, returned, lookup,
          clears, traverse, threads, probe>>

\* What ClassMap_new and a whole ClassMap_LookupMember call leave alone.
other_vars == <<clears, traverse, threads, probe>>

map_vars == <<entries, allocated, member_count>>

\* struct ClassMapEntry, zeroed
EmptyEntry == [name |-> NULL, member |-> NULL, index |-> 0]

NoLookup == [name |-> NULL, in_member |-> NULL, in_index |-> 0,
             member |-> NULL, index |-> 0]

NoTraverse == [called |-> FALSE, visits |-> <<>>, ret |-> 0]

NoProbe == [hash |-> <<0, 0>>, mask |-> 0, insert_path |-> <<>>, lookup_path |-> <<>>,
            insert_at |-> <<0, <<0, 0>>>>, lookup_at |-> <<0, <<0, 0>>>>]

Objects(m) == { m.items[i].key : i \in DOMAIN m.items } \cup { m.items[i].value : i \in DOMAIN m.items }

\* The references the mapping itself holds on its keys and values.
DictRefs(m) ==
    [ o \in Objects(m) |->
        Cardinality({ i \in DOMAIN m.items : m.items[i].key = o })
        + Cardinality({ i \in DOMAIN m.items : m.items[i].value = o }) ]

\* ------------------------------------------------------------ insert_member

\* insert_next_bucket probing the next slot, as a linear table does.
insert_next_bucket_linear(bucket, hash, mask) == BitAnd(bucket + 1, mask)

\* bucket = ( ( bucket << 2 ) + bucket + hash + 1 ) & mask, in insert_member
insert_next_bucket(bucket, hash, mask) == HashAndMask(ProbeSum(bucket, hash), mask)

\* insert_member without the shift of the hash.
insert_next_hash_keeps(hash) == hash

\* hash >>= 5, in insert_member
insert_next_hash(hash) == ShiftRight5(hash)

\* The while( true ) loop of insert_member: the bucket of the first slot on
\* the probe path whose name is null, or -1 when the loop comes back to a
\* (bucket, hash) pair it has been at, from where it repeats forever.
RECURSIVE insert_probe(_, _, _, _, _)
insert_probe(ents, mask, bucket, hash, seen) ==
    IF ents[bucket].name = NULL THEN bucket
    ELSE IF <<bucket, hash>> \in seen THEN -1
    ELSE insert_probe(ents, mask, insert_next_bucket(bucket, hash, mask),
                      insert_next_hash(hash), seen \cup {<<bucket, hash>>})

\* insert_member that stores into the last empty slot of the array.
insert_bucket_last_empty(ents, alloc, name) ==
    CHOOSE b \in DOMAIN ents :
        ents[b].name = NULL /\ \A c \in DOMAIN ents : ents[c].name = NULL => c <= b

\* The slot insert_member stores into.
insert_bucket(ents, alloc, name) ==
    LET mask == alloc - 1
        hash == pystr_hash(name)
    IN  insert_probe(ents, mask, HashAndMask(hash, mask), hash, {})

\* insert_store with ++map->member_count in the place of map->member_count++.
insert_store_preincrement(ents, bucket, count, name, member) ==
    [ents EXCEPT ![bucket] = [name |-> name, member |-> member, index |-> count + 1]]

\* entry->name = name; entry->member = member; entry->index = map->member_count++
insert_store(ents, bucket, count, name, member) ==
    [ents EXCEPT ![bucket] = [name |-> name, member |-> member, index |-> count]]

\* Py_INCREF( name ); Py_INCREF( member )
insert_retain(refs, name, member) ==
    [o \in DOMAIN refs |-> refs[o] + (IF o = name THEN 1 ELSE 0) + (IF o = member THEN 1 ELSE 0)]

\* insert_member: the map and the reference counts after the call; done is
\* FALSE when the probing loop never leaves.
insert_member(ents, alloc, count, refs, name, member) ==
    LET bucket == insert_bucket(ents, alloc, name)
    IN  IF bucket = -1
        THEN [done |-> FALSE, entries |-> ents, member_count |-> count, refcnt |-> refs]
        ELSE [done |-> TRUE,
              entries |-> insert_store(ents, bucket, count, name, member),
              member_count |-> count + 1,
              refcnt |-> insert_retain(refs, name, member)]

\* --------------------------------------------------- ClassMap_LookupMember

\* lookup_next_bucket without the + bucket of the recurrence.
lookup_next_bucket_times_four(bucket, hash, mask) ==
    BitAnd((bucket * 4 + hash[2] + 1) % 65536, mask)

\* bucket = ( ( bucket << 2 ) + bucket + hash + 1 ) & mask, in ClassMap_LookupMember
lookup_next_bucket(bucket, hash, mask) == HashAndMask(ProbeSum(bucket, hash), mask)

\* lookup_next_hash that never shifts.
lookup_next_hash_no_shift(hash) == hash

\* hash >>= 5, in ClassMap_LookupMember
lookup_next_hash(hash) == ShiftRight5(hash)

\* lookup_match comparing the hashes and not the strings.
lookup_match_by_hash(name, entry_name) == pystr_hash(name) = pystr_hash(entry_name)

\* if( utils::pystr_equal( name, entry->name ) )
lookup_match(name, entry_name) == pystr_equal(name, entry_name)

\* lookup_refs handing out a new reference: Py_INCREF( entry->member ).
lookup_refs_new_reference(refs, member) ==
    [o \in DOMAIN refs |-> refs[o] + (IF o = member THEN 1 ELSE 0)]

\* The references after a lookup that found member: the member is handed
\* out borrowed, with no Py_INCREF.
lookup_refs(refs, member) == refs

\* The while( true ) loop of ClassMap_LookupMember: where and how it leaves
\* ("empty" slot, "equal" key), or "never" when it comes back to a
\* (bucket, hash) pair it has been at.
RECURSIVE lookup_probe(_, _, _, _, _, _)
lookup_probe(ents, mask, name, bucket, hash, seen) ==
    IF ents[bucket].name = NULL THEN [exit |-> "empty", bucket |-> bucket]
    ELSE IF lookup_match(name, ents[bucket].name) THEN [exit |-> "equal", bucket |-> bucket]
    ELSE IF <<bucket, hash>> \in seen THEN [exit |-> "never", bucket |-> bucket]
    ELSE lookup_probe(ents, mask, name, lookup_next_bucket(bucket, hash, mask),
                      lookup_next_hash(hash), seen \cup {<<bucket, hash>>})

\* ClassMap_LookupMember( map, name, &member, &index ): the caller's member
\* and index after the call, and the map and the reference counts, which no
\* statement of the function writes; done is FALSE when the loop never
\* leaves.
ClassMap_LookupMember(ents, alloc, count, refs, name, member, index) ==
    LET mask == alloc - 1
        hash == pystr_hash(name)
        p == lookup_probe(ents, mask, name, HashAndMask(hash, mask), hash, {})
        map == [entries |-> ents, allocated |-> alloc, member_count |-> count]
    IN  CASE p.exit = "empty" ->
               map @@ [done |-> TRUE, member |-> member, index |-> index, refcnt |-> refs]
          [] p.exit = "equal" ->
               map @@ [done |-> TRUE, member |-> ents[p.bucket].member,
                       index |-> ents[p.bucket].index,
                       refcnt |-> lookup_refs(refs, ents[p.bucket].member)]
          [] OTHER ->
               map @@ [done |-> FALSE, member |-> member, index |-> index, refcnt |-> refs]

\* ---------------------------------------------- ClassMap_clear and dealloc

\* ClassMap_clear: Py_CLEAR of the name and the member of every slot that
\* has a name.
\* ClassMap_clear that leaves the pointers in the slots.
clear_entries_keeps_pointers(ents) == ents

\* ClassMap_clear that resets the name of a slot and leaves its member.
clear_entries_name_only(ents) ==
    [b \in DOMAIN ents |-> [ents[b] EXCEPT !.name = NULL]]

\* if( entry->name ) { Py_CLEAR( entry->name ); Py_CLEAR( entry->member ); }
\* Py_CLEAR sets the pointer to null before it releases the reference.
clear_entries(ents) ==
    [b \in DOMAIN ents |->
        IF ents[b].name # NULL
        THEN [ents[b] EXCEPT !.name = NULL, !.member = NULL]
        ELSE ents[b]]

\* ClassMap_clear that releases the names and not the members.
clear_refs_names_only(ents, refs) ==
    [o \in DOMAIN refs |->
        refs[o] - Cardinality({ b \in DOMAIN ents : ents[b].name # NULL /\ ents[b].name = o })]

\* The references Py_CLEAR releases: one per pointer of an occupied slot.
clear_refs(ents, refs) ==
    [o \in DOMAIN refs |->
        refs[o]
        - Cardinality({ b \in DOMAIN ents : ents[b].name # NULL /\ ents[b].name = o })
        - Cardinality({ b \in DOMAIN ents : ents[b].name # NULL /\ ents[b].member # NULL
                                            /\ ents[b].member = o })]

\* -------------------------------------------------------- ClassMap_traverse

\* The visitor of one traversal: its call number `at` returns `ret`, every
\* other call returns 0; at = 0 is the visitor that always returns 0.
visit_result(visitor, k) == IF k = visitor.at THEN visitor.ret ELSE 0

Visit(slot, field, ob) == [slot |-> slot, field |-> field, ob |-> ob]

\* A traversal that visits the name of a slot and not its member.
traverse_entry_name_only(ents, i, visitor, visits) ==
    LET named == Append(visits, Visit(i, "name", ents[i].name))
    IN  [visits |-> named, ret |-> visit_result(visitor, Len(named))]

\* Py_VISIT( entry->name ); Py_VISIT( entry->member ); of one occupied slot.
\* Py_VISIT skips a null pointer and returns from ClassMap_traverse with the
\* visitor's value when that is not 0.
traverse_entry(ents, i, visitor, visits) ==
    LET named == Append(visits, Visit(i, "name", ents[i].name))
        stop  == visit_result(visitor, Len(named))
        both  == Append(named, Visit(i, "member", ents[i].member))
    IN  IF stop # 0 THEN [visits |-> named, ret |-> stop]
        ELSE IF ents[i].member = NULL THEN [visits |-> named, ret |-> 0]
        ELSE [visits |-> both, ret |-> visit_result(visitor, Len(both))]

\* for( uint32_t i = 0; i < map->allocated; ++i ) if( entry->name ) { ... }
RECURSIVE traverse_loop(_, _, _, _, _)
traverse_loop(ents, alloc, i, visitor, visits) ==
    IF i >= alloc THEN [visits |-> visits, ret |-> 0]
    ELSE IF ents[i].name = NULL THEN traverse_loop(ents, alloc, i + 1, visitor, visits)
    ELSE LET r == traverse_entry(ents, i, visitor, visits)
         IN  IF r.ret # 0 THEN r ELSE traverse_loop(ents, alloc, i + 1, visitor, r.visits)

ClassMap_traverse(ents, alloc, visitor) == traverse_loop(ents, alloc, 0, visitor, <<>>)

\* ------------------------------------------------------------ ClassMap_new

\* new_count without the floor of 3.
new_count_no_floor(dsize) == dsize

\* uint32_t count = std::max( dsize, static_cast<uint32_t>( 3 ) )
new_count(dsize) == IF dsize > 3 THEN dsize ELSE 3

\* new_allocated sized for the count itself, without the 4 / 3.
new_allocated_no_slack(dsize) == next_power_of_2(new_count(dsize))

\* uint32_t allocated = utils::next_power_of_2( count * 4 / 3 )
new_allocated(dsize) == next_power_of_2((new_count(dsize) * 4) \div 3)

\* memset( entrymem, 0, memsize )
new_entries(alloc) == [b \in 0 .. alloc - 1 |-> EmptyEntry]

\* The destructor of self_ptr on a return that does not release it: the
\* last reference goes and ClassMap_dealloc runs (ClassMap_clear, then
\* PyObject_Free of the entries, then tp_free).
\* A discard of the object that frees it and its array without ClassMap_clear.
DiscardSelf_no_clear ==
    /\ array_state' = IF array_state = "live" THEN "freed" ELSE array_state
    /\ self_state' = "freed"
    /\ UNCHANGED <<entries, refcnt, allocated, member_count>>

DiscardSelf ==
    /\ entries' = clear_entries(entries)
    /\ refcnt' = clear_refs(entries, refcnt)
    /\ array_state' = IF array_state = "live" THEN "freed" ELSE array_state
    /\ self_state' = "freed"
    /\ UNCHANGED <<allocated, member_count>>

\* if( !PyDict_CheckExact( members ) ) return py_expected_type_fail( members, "dict" )
new_not_a_dict ==
    /\ UNCHANGED other_vars
    /\ pc = "start"
    /\ ~members.is_dict
    /\ pc' = "failed"
    /\ error' = py_expected_type_fail(NotADictObject, "dict")
    /\ returned' = "NULL"
    /\ UNCHANGED <<members, pos, map_vars, refcnt, self_state, array_state, lookup>>

\* PyType_GenericNew returns 0
new_no_self ==
    /\ UNCHANGED other_vars
    /\ pc = "start"
    /\ members.is_dict
    /\ pc' = "failed"
    /\ error' = PyErr_NoMemory
    /\ returned' = "NULL"
    /\ UNCHANGED <<members, pos, map_vars, refcnt, self_state, array_state, lookup>>

\* PyObject_Malloc returns 0: return PyErr_NoMemory()
new_no_memory ==
    /\ UNCHANGED other_vars
    /\ pc = "start"
    /\ members.is_dict
    /\ pc' = "failed"
    /\ error' = PyErr_NoMemory
    /\ returned' = "NULL"
    /\ self_state' = "freed"
    /\ UNCHANGED <<members, pos, map_vars, refcnt, array_state, lookup>>

\* The object and the zeroed entry array are there: map->entries and
\* map->allocated are set, and the loop over the mapping starts.
new_allocate ==
    /\ UNCHANGED other_vars
    /\ pc = "start"
    /\ members.is_dict
    /\ allocated' = new_allocated(Len(members.items))
    /\ entries' = new_entries(allocated')
    /\ self_state' = "live"
    /\ array_state' = "live"
    /\ pc' = "loop"
    /\ UNCHANGED <<members, pos, member_count, refcnt, error, returned, lookup>>

\* new_bad_key going on to the next item and not returning.
new_bad_key_skips ==
    /\ UNCHANGED other_vars
    /\ pc = "loop"
    /\ pos < Len(members.items)
    /\ ~PyString_Check(members.items[pos + 1].key)
    /\ pos' = pos + 1
    /\ UNCHANGED <<members, pc, map_vars, refcnt, self_state, array_state, error,
                   returned, lookup>>

\* One turn of while( PyDict_Next( ... ) ) with a key that is no string.
new_bad_key ==
    /\ UNCHANGED other_vars
    /\ pc = "loop"
    /\ pos < Len(members.items)
    /\ ~PyString_Check(members.items[pos + 1].key)
    /\ error' = py_expected_type_fail(members.items[pos + 1].key, "str")
    /\ returned' = "NULL"
    /\ pc' = "failed"
    /\ pos' = pos + 1
    /\ DiscardSelf
    /\ UNCHANGED <<members, lookup>>

\* new_bad_value passing the key, not the value, to py_expected_type_fail.
new_bad_value_names_key ==
    /\ UNCHANGED other_vars
    /\ pc = "loop"
    /\ pos < Len(members.items)
    /\ PyString_Check(members.items[pos + 1].key)
    /\ ~Member_Check(members.items[pos + 1].value)
    /\ error' = py_expected_type_fail(members.items[pos + 1].key, "Member")
    /\ returned' = "NULL"
    /\ pc' = "failed"
    /\ pos' = pos + 1
    /\ DiscardSelf
    /\ UNCHANGED <<members, lookup>>

\* One turn with a string key and a value that is no Member.
new_bad_value ==
    /\ UNCHANGED other_vars
    /\ pc = "loop"
    /\ pos < Len(members.items)
    /\ PyString_Check(members.items[pos + 1].key)
    /\ ~Member_Check(members.items[pos + 1].value)
    /\ error' = py_expected_type_fail(members.items[pos + 1].value, "Member")
    /\ returned' = "NULL"
    /\ pc' = "failed"
    /\ pos' = pos + 1
    /\ DiscardSelf
    /\ UNCHANGED <<members, lookup>>

\* One turn with a string key and a Member: insert_member.
new_insert ==
    /\ UNCHANGED other_vars
    /\ pc = "loop"
    /\ pos < Len(members.items)
    /\ PyString_Check(members.items[pos + 1].key)
    /\ Member_Check(members.items[pos + 1].value)
    /\ LET r == insert_member(entries, allocated, member_count, refcnt,
                              members.items[pos + 1].key, members.items[pos + 1].value)
       IN  /\ entries' = r.entries
           /\ member_count' = r.member_count
           /\ refcnt' = r.refcnt
           /\ pc' = IF r.done THEN "loop" ELSE "hung"
    /\ pos' = pos + 1
    /\ UNCHANGED <<members, allocated, self_state, array_state, error, returned, lookup>>

\* PyDict_Next returns 0: return self_ptr.release()
new_return ==
    /\ UNCHANGED other_vars
    /\ pc = "loop"
    /\ pos = Len(members.items)
    /\ pc' = "built"
    /\ returned' = "self"
    /\ UNCHANGED <<members, pos, map_vars, refcnt, self_state, array_state, error, lookup>>

\* ClassMap_new on a mapping whose items all pass the checks, as one
\* function: the map after the items seq[1 .. k] have been inserted.
RECURSIVE new_build(_, _, _)
new_build(seq, k, refs) ==
    IF k = 0
    THEN [done |-> TRUE, entries |-> new_entries(new_allocated(Len(seq))),
          allocated |-> new_allocated(Len(seq)), member_count |-> 0, refcnt |-> refs]
    ELSE LET m == new_build(seq, k - 1, refs)
             r == insert_member(m.entries, m.allocated, m.member_count, m.refcnt,
                                seq[k].key, seq[k].value)
         IN  IF m.done
             THEN [done |-> r.done, entries |-> r.entries, allocated |-> m.allocated,
                   member_count |-> r.member_count, refcnt |-> r.refcnt]
             ELSE m

\* ------------------------------------------------------------ the callers

\* The names looked up: every string of the pool as the very object a
\* mapping holds (id 1) and as another object of the same content (id 2),
\* the strings no mapping holds, and every string key of the mapping.
LookupNames ==
    { Str(k[1], k[2], i) : k \in KeyTexts, i \in {1, 2} }
    \cup { Str(k[1], k[2], 1) : k \in AbsentTexts }
    \cup { o \in Objects(members) : PyString_Check(o) }

\* What the caller's member and index hold before the call.
InMembers == {NULL, D9}

InIndexes == {77}

\* A call of ClassMap_LookupMember on the built map.
Lookup(name, m0, i0) ==
    /\ UNCHANGED other_vars
    /\ pc = "built"
    /\ LET r == ClassMap_LookupMember(entries, allocated, member_count, refcnt, name, m0, i0)
       IN  /\ lookup' = [name |-> name, in_member |-> m0, in_index |-> i0,
                         member |-> r.member, index |-> r.index]
           /\ entries' = r.entries
           /\ allocated' = r.allocated
           /\ member_count' = r.member_count
           /\ refcnt' = r.refcnt
           /\ pc' = IF r.done THEN "built" ELSE "hung"
    /\ UNCHANGED <<members, pos, self_state, array_state, error, returned>>

\* ClassMap_clear that sets member_count to 0.
Clear_resets_count ==
    /\ pc = "built"
    /\ clears < MaxClears
    /\ entries' = clear_entries(entries)
    /\ refcnt' = clear_refs(entries, refcnt)
    /\ clears' = clears + 1
    /\ member_count' = 0
    /\ UNCHANGED <<members, pc, pos, allocated, self_state, array_state,
                   error, returned, lookup, traverse, threads, probe>>

\* A call of ClassMap_clear (tp_clear) on the built map.
Clear ==
    /\ pc = "built"
    /\ clears < MaxClears
    /\ entries' = clear_entries(entries)
    /\ refcnt' = clear_refs(entries, refcnt)
    /\ clears' = clears + 1
    /\ UNCHANGED <<members, pc, pos, allocated, member_count, self_state, array_state,
                   error, returned, lookup, traverse, threads, probe>>

\* The value a visitor returns to stop a traversal at its call k.
VisitRet(k) == IF k % 2 = 1 THEN -1 ELSE 2 + k

\* The visitors: the one that never stops, and those that stop at one of
\* the calls the table makes, two for each slot with a name.
Visitors ==
    {[at |-> 0, ret |-> 0]}
    \cup { [at |-> k, ret |-> VisitRet(k)] :
             k \in 1 .. 2 * Cardinality({ b \in DOMAIN entries : entries[b].name # NULL }) }

\* A call of ClassMap_traverse (tp_traverse) on the built map.
Traverse(visitor) ==
    /\ pc = "built"
    /\ LET r == ClassMap_traverse(entries, allocated, visitor)
       IN  traverse' = [called |-> TRUE, visits |-> r.visits, ret |-> r.ret]
    /\ UNCHANGED <<members, pc, pos, entries, allocated, member_count, refcnt, self_state,
                   array_state, error, returned, lookup, clears, threads, probe>>

\* ClassMap_dealloc of the built map: PyObject_GC_UnTrack, ClassMap_clear,
\* PyObject_Free( self->entries ), tp_free.
Dealloc ==
    /\ pc = "built"
    /\ DiscardSelf
    /\ pc' = "dead"
    /\ UNCHANGED <<members, pos, error, returned, lookup, clears, traverse, threads, probe>>

\* ClassMap_LookupMember calls that run side by side on the built map, each
\* at its own place in the function; one step is one pass of the loop.
NewThread(ents, alloc, name, m0, i0) ==
    [name |-> name, at |-> "loop", member |-> m0, index |-> i0,
     hash |-> pystr_hash(name),
     bucket |-> HashAndMask(pystr_hash(name), alloc - 1)]

\* One pass of the loop that takes a reference to the member it finds.
lookup_step_retains(ents, alloc, refs, th) ==
    LET entry == ents[th.bucket]
        mask == alloc - 1
    IN  IF entry.name = NULL
        THEN [thread |-> [th EXCEPT !.at = "done"], entries |-> ents, refcnt |-> refs]
        ELSE IF lookup_match(th.name, entry.name)
        THEN [thread |-> [th EXCEPT !.at = "done", !.member = entry.member, !.index = entry.index],
              entries |-> ents,
              refcnt |-> [o \in DOMAIN refs |-> refs[o] + (IF o = entry.member THEN 1 ELSE 0)]]
        ELSE [thread |-> [th EXCEPT !.bucket = lookup_next_bucket(th.bucket, th.hash, mask),
                                    !.hash = lookup_next_hash(th.hash)],
              entries |-> ents, refcnt |-> refs]

\* One pass of the while( true ) loop for the call th: the thread's locals
\* and outputs after it, and the entry array and the reference counts.
lookup_step(ents, alloc, refs, th) ==
    LET entry == ents[th.bucket]
        mask == alloc - 1
    IN  IF entry.name = NULL
        THEN [thread |-> [th EXCEPT !.at = "done"], entries |-> ents, refcnt |-> refs]
        ELSE IF lookup_match(th.name, entry.name)
        THEN [thread |-> [th EXCEPT !.at = "done", !.member = entry.member, !.index = entry.index],
              entries |-> ents,
              refcnt |-> lookup_refs(refs, entry.member)]
        ELSE [thread |-> [th EXCEPT !.bucket = lookup_next_bucket(th.bucket, th.hash, mask),
                                    !.hash = lookup_next_hash(th.hash)],
              entries |-> ents, refcnt |-> refs]

\* A caller enters ClassMap_LookupMember while other calls are under way.
LookupCall(name, m0, i0) ==
    /\ pc = "built"
    /\ Len(threads) < MaxThreads
    /\ threads' = Append(threads, NewThread(entries, allocated, name, m0, i0))
    /\ UNCHANGED <<members, pc, pos, entries, allocated, member_count, refcnt, self_state,
                   array_state, error, returned, lookup, clears, traverse, probe>>

\* The call t makes its next pass of the loop.
LookupStep(t) ==
    /\ pc = "built"
    /\ t \in DOMAIN threads
    /\ threads[t].at = "loop"
    /\ LET r == lookup_step(entries, allocated, refcnt, threads[t])
       IN  /\ threads' = [threads EXCEPT ![t] = r.thread]
           /\ entries' = r.entries
           /\ refcnt' = r.refcnt
    /\ UNCHANGED <<members, pc, pos, allocated, member_count, self_state,
                   array_state, error, returned, lookup, clears, traverse, probe>>

\* The probing loops of insert_member and of ClassMap_LookupMember on a
\* table in which neither finds a slot to stop at: each examines its
\* bucket and goes on to the next.
ProbeStart(hash, mask) ==
    [hash |-> hash, mask |-> mask, insert_path |-> <<>>, lookup_path |-> <<>>,
     insert_at |-> <<HashAndMask(hash, mask), hash>>,
     lookup_at |-> <<HashAndMask(hash, mask), hash>>]

\* The passes after which hash >>= 5 has left nothing of the hash.
RECURSIVE ShiftsToZero(_)
ShiftsToZero(hash) == IF hash = <<0, 0>> THEN 0 ELSE 1 + ShiftsToZero(ShiftRight5(hash))

\* The passes followed: until the hash is used up, then once around the
\* table and one more.
ProbeLen(hash, mask) == ShiftsToZero(hash) + mask + 2

ProbeStep ==
    /\ pc = "probe"
    /\ Len(probe.insert_path) < ProbeLen(probe.hash, probe.mask)
    /\ probe' = [probe EXCEPT
            !.insert_path = Append(@, probe.insert_at[1]),
            !.lookup_path = Append(@, probe.lookup_at[1]),
            !.insert_at = <<insert_next_bucket(probe.insert_at[1], probe.insert_at[2], probe.mask),
                            insert_next_hash(probe.insert_at[2])>>,
            !.lookup_at = <<lookup_next_bucket(probe.lookup_at[1], probe.lookup_at[2], probe.mask),
                            lookup_next_hash(probe.lookup_at[2])>>]
    /\ UNCHANGED <<members, pc, pos, entries, allocated, member_count, refcnt, self_state,
                   array_state, error, returned, lookup, clears, traverse, threads>>

\* ---------------------------------------------------------- specifications

Item(key, value) == [key |-> key, value |-> value]

Keys == KeyPool \cup {IntKey}

Values == MemberPool \cup {NotAMember}

\* A dict holds no two equal keys.
DistinctKeys(items) ==
    \A i, j \in DOMAIN items : i # j => items[i].key # items[j].key

\* Every mapping of at most n items, in every iteration order.
Mappings(n) ==
    { [is_dict |-> TRUE, items |-> s] :
        s \in { t \in UNION { [1 .. k -> {Item(a, b) : a \in Keys, b \in Values}] : k \in 0 .. n } :
                DistinctKeys(t) } }

NotADict == [is_dict |-> FALSE, items |-> <<>>]

InitWith(m) ==
    /\ members = m
    /\ pc = "start"
    /\ pos = 0
    /\ entries = <<>>
    /\ allocated = 0
    /\ member_count = 0
    /\ refcnt = DictRefs(m)
    /\ self_state = "none"
    /\ array_state = "none"
    /\ error = NoError
    /\ returned = "nothing"
    /\ lookup = NoLookup
    /\ clears = 0
    /\ traverse = NoTraverse
    /\ threads = <<>>
    /\ probe = NoProbe

Init == \E m \in Mappings(MaxEntries) \cup {NotADict} : InitWith(m)

Next ==
    \/ new_not_a_dict
    \/ new_no_self
    \/ new_no_memory
    \/ new_allocate
    \/ new_bad_key
    \/ new_bad_value
    \/ new_insert
    \/ new_return
    \/ \E name \in LookupNames, m0 \in InMembers, i0 \in InIndexes : Lookup(name, m0, i0)

Spec == Init /\ [][Next]_vars

\* One mapping of each size up to MaxSize, whole or with one malformed item
\* in its middle; the keys share low hash bits, so that they collide in
\* every table size, and differ in the high ones.
SizeKey(i) == Str(<<(i * 7919) % 65536, 32 * (i % 4) + 5 * (i % 2)>>, 100 + i, 1)

SizeItem(i, n, bad) ==
    Item(IF bad = "key" /\ i = (n + 1) \div 2 THEN IntKey ELSE SizeKey(i),
         IF bad = "value" /\ i = (n + 1) \div 2 THEN NotAMember
         ELSE IF i % 3 = 0 THEN D2 ELSE D1)

SizeMapping(n, bad) == [is_dict |-> TRUE, items |-> [i \in 1 .. n |-> SizeItem(i, n, bad)]]

SizeInit ==
    \E m \in { SizeMapping(n, bad) : n \in 0 .. MaxSize, bad \in {"none", "key", "value"} }
              \cup {NotADict} : InitWith(m)

SizeSpec == SizeInit /\ [][Next]_vars

\* The life of a map that was built: lookups, traversals and clears in any
\* order, then its deallocation.
LiveMappings ==
    { m \in Mappings(MaxLive) :
        \A i \in DOMAIN m.items : PyString_Check(m.items[i].key) /\ Member_Check(m.items[i].value) }

LifeInit == \E m \in LiveMappings : InitWith(m)

LifeNext ==
    \/ new_allocate
    \/ new_insert
    \/ new_return
    \/ \E name \in KeyPool : Lookup(name, D9, 77)
    \/ Clear
    \/ \E visitor \in Visitors : Traverse(visitor)
    \/ Dealloc

LifeSpec == LifeInit /\ [][LifeNext]_vars

\* Lookups side by side: the mappings of at most MaxLive names with the
\* members alternating, in every order, and at most MaxThreads calls under
\* way on the map built from one.
ConcMappings ==
    { m \in LiveMappings :
        \A i \in DOMAIN m.items : m.items[i].value = (IF i % 2 = 1 THEN D1 ELSE D2) }

ConcNames == KeyPool \cup { Str(k[1], k[2], 2) : k \in AbsentTexts }

ConcInit == \E m \in ConcMappings : InitWith(m)

ConcNext ==
    \/ new_allocate
    \/ new_insert
    \/ new_return
    \/ \E name \in ConcNames : LookupCall(name, NULL, 77)
    \/ \E t \in 1 .. MaxThreads : LookupStep(t)

ConcSpec == ConcInit /\ [][ConcNext]_vars

\* The probe sequences by themselves: hashes with few and with many bits
\* set, in the low and in the high half, and every capacity from 4 (the
\* smallest ClassMap_new allocates) to 2^MaxProbeBits.
ProbeHashes == { <<hi, lo>> : hi \in {0, 4660, 65535}, lo \in 0 .. 40 \cup {65535} }

ProbeMasks == { 2 ^ k - 1 : k \in 2 .. MaxProbeBits }

ProbeInit ==
    \E hash \in ProbeHashes, mask \in ProbeMasks :
        /\ members = [is_dict |-> TRUE, items |-> <<>>]
        /\ pc = "probe"
        /\ pos = 0
        /\ entries = <<>>
        /\ allocated = mask + 1
        /\ member_count = 0
        /\ refcnt = DictRefs(members)
        /\ self_state = "none"
        /\ array_state = "none"
        /\ error = NoError
        /\ returned = "nothing"
        /\ lookup = NoLookup
        /\ clears = 0
        /\ traverse = NoTraverse
        /\ threads = <<>>
        /\ probe = ProbeStart(hash, mask)

ProbeNext == ProbeStep

ProbeSpec == ProbeInit /\ [][ProbeNext]_vars

\* ------------------------------------------------------------- properties

items == members.items

SameContent(a, b) == a.hash = b.hash /\ a.text = b.text

Malformed(i) == ~PyString_Check(items[i].key) \/ ~Member_Check(items[i].value)

Occupied == { b \in DOMAIN entries : entries[b].name # NULL }

\* The first bucket of a name's probe path in the map.
FirstBucket(name) == HashAndMask(name.hash, allocated - 1)

\* Some key of the map lies in a slot that is not the first of its path.
SomeKeyDisplaced == \E b \in Occupied : FirstBucket(entries[b].name) # b

\* C1: round trip.  A lookup of a key the build inserted writes the Member
\* inserted with that key and the index insert_member gave the key, which is
\* the number of items inserted before it.
C1_RoundTrip ==
    lookup.name # NULL =>
        \A i \in DOMAIN items :
            items[i].key = lookup.name =>
                /\ pc = "built"
                /\ lookup.member = items[i].value
                /\ lookup.index = i - 1

\* A key inserted fourth, after a collision, is found with its Member, over
\* a caller's variable that held another Member.
C1_Witness ==
    /\ pc = "built"
    /\ Len(items) = 4
    /\ lookup.name = items[4].key
    /\ lookup.in_member = D9
    /\ lookup.member = items[4].value
    /\ lookup.index = 3
    /\ entries[FirstBucket(lookup.name)].name # lookup.name

\* C2: absence.  A lookup of a name equal to no key of the mapping returns
\* and leaves the caller's member and index as they were.
C2_Absence ==
    (lookup.name # NULL /\ \A i \in DOMAIN items : ~SameContent(items[i].key, lookup.name)) =>
        /\ pc = "built"
        /\ lookup.member = lookup.in_member
        /\ lookup.index = lookup.in_index

\* A name that is in no mapping and has the hash of two keys of the map is
\* looked up, and the caller's Member is still there.
C2_Witness ==
    /\ pc = "built"
    /\ lookup.name = Str(<<0, 5>>, 8, 1)
    /\ Cardinality({ b \in Occupied : entries[b].name.hash = <<0, 5>> }) = 2
    /\ lookup.in_member = D9
    /\ lookup.member = D9
    /\ lookup.index = lookup.in_index

\* C3: index density.  While the entry array lives, the indexes of the
\* occupied slots are exactly 0 .. member_count - 1, one slot each, and a
\* built map counts as many members as the mapping has items.
C3_IndexDensity ==
    /\ array_state = "live" =>
        /\ { entries[b].index : b \in Occupied } = 0 .. member_count - 1
        /\ Cardinality(Occupied) = member_count
    /\ pc = "built" => member_count = Len(items)

\* A built map of four members, one of them displaced by a collision.
C3_Witness ==
    /\ pc = "built"
    /\ member_count = 4
    /\ SomeKeyDisplaced
    /\ { entries[b].index : b \in Occupied } = 0 .. 3

RECURSIVE IsPowerOfTwo(_)
IsPowerOfTwo(n) == n = 1 \/ (n > 1 /\ n % 2 = 0 /\ IsPowerOfTwo(n \div 2))

\* C4: load factor.  While the entry array lives, member_count is at most
\* three quarters of allocated, some slot is empty, and allocated is a power
\* of two.
C4_LoadFactor ==
    array_state = "live" =>
        /\ member_count * 4 <= allocated * 3
        /\ member_count <= (allocated * 3) \div 4
        /\ Occupied # DOMAIN entries
        /\ DOMAIN entries = 0 .. allocated - 1
        /\ IsPowerOfTwo(allocated)

\* A built map filled to exactly three quarters: 12 members in 16 slots.
C4_Witness ==
    /\ pc = "built"
    /\ member_count = 12
    /\ allocated = 16
    /\ Cardinality(Occupied) = 12

\* ceil(max(n, 3) * 4 / 3)
CeilTarget(n) == ((IF n > 3 THEN n ELSE 3) * 4 + 2) \div 3

\* C5: capacity plan.  The capacity of a mapping of n items is the least
\* power of two that is at least ceil(max(n, 3) * 4 / 3), which is 4 for
\* n = 0, 1, 2, 3.
C5_CapacityPlan ==
    array_state = "live" =>
        /\ IsPowerOfTwo(allocated)
        /\ allocated >= CeilTarget(Len(items))
        /\ allocated \div 2 < CeilTarget(Len(items))
        /\ Len(items) <= 3 => allocated = 4

\* Seven items: count * 4 / 3 is 9 in the code and 10 rounded up, and the
\* capacity is 16 either way.
C5_Witness ==
    /\ pc = "built"
    /\ Len(items) = 7
    /\ (new_count(7) * 4) \div 3 = 9
    /\ CeilTarget(7) = 10
    /\ allocated = 16

\* C6: probe termination.  No call of insert_member and no call of
\* ClassMap_LookupMember stays in its probing loop for ever.
C6_ProbeTermination == pc # "hung"

\* In a table of 4 that holds 3 keys, one of them displaced, a name that is
\* in no mapping and whose first bucket is taken has been looked up, and the
\* call has returned.
C6_Witness ==
    /\ pc = "built"
    /\ allocated = 4
    /\ member_count = 3
    /\ SomeKeyDisplaced
    /\ lookup.name = Str(<<0, 5>>, 8, 1)
    /\ entries[FirstBucket(lookup.name)].name # NULL
    /\ lookup.member = lookup.in_member

\* C7: immutability under lookup.  A call of ClassMap_LookupMember, with a
\* name that is there or not, leaves every slot, allocated, member_count and
\* every reference count as they were.
C7_LookupImmutable ==
    [][ (\E name \in LookupNames, m0 \in InMembers, i0 \in InIndexes : Lookup(name, m0, i0))
        => UNCHANGED <<entries, allocated, member_count, refcnt>> ]_vars

\* A lookup has found a Member that two keys of a map of four share, and the
\* Member is counted once for each item of the mapping and once for each
\* slot.
C7_Witness ==
    /\ pc = "built"
    /\ member_count = 4
    /\ lookup.in_member = D9
    /\ lookup.member = D1
    /\ Cardinality({ b \in Occupied : entries[b].member = D1 }) = 2
    /\ refcnt[D1] = 4

\* The iteration orders of a mapping's items.
Orders(seq) == { [i \in DOMAIN seq |-> seq[f[i]]] : f \in Permutations(DOMAIN seq) }

\* The last lookup made again on the map built from the items in order seq.
LookupIn(seq) ==
    LET m == new_build(seq, Len(seq), DictRefs(members))
    IN  ClassMap_LookupMember(m.entries, m.allocated, m.member_count, m.refcnt,
                              lookup.name, lookup.in_member, lookup.in_index)

Written(r) == r.member # lookup.in_member \/ r.index # lookup.in_index

\* C8: order independence.  The lookup of a name in the built map and in the
\* map built from the same items in any other order agree on whether the
\* name is there and on the Member written.
C8_OrderIndependence ==
    (pc = "built" /\ lookup.name # NULL) =>
        \A seq \in Orders(items) :
            /\ LookupIn(seq).done
            /\ Written(LookupIn(seq)) <=> Written(lookup)
            /\ LookupIn(seq).member = lookup.member

\* A key found at index 0 in the built map is found with the same Member
\* and another index in the map built in another order.
C8_Witness ==
    /\ pc = "built"
    /\ Len(items) = 3
    /\ lookup.name = items[1].key
    /\ lookup.index = 0
    /\ \E seq \in Orders(items) :
          /\ LookupIn(seq).member = lookup.member
          /\ LookupIn(seq).index = 2
          /\ new_build(seq, 3, DictRefs(members)).entries # entries

HasMalformed == \E i \in DOMAIN items : Malformed(i)

\* The first malformed item in iteration order.
FirstBad == CHOOSE i \in DOMAIN items : Malformed(i) /\ \A j \in 1 .. i - 1 : ~Malformed(j)

\* C9: construction type error.  On a mapping with a malformed item,
\* ClassMap_new does not get past the first such item and returns no map; it
\* fails with a TypeError that names that item's key and "str" when the key
\* is no string, and else its value and "Member"; and no slot ever holds
\* that item's key.
C9_TypeError ==
    HasMalformed =>
        /\ returned # "self"
        /\ pc # "built"
        /\ pc = "loop" => pos < FirstBad
        /\ \A b \in DOMAIN entries : entries[b].name # items[FirstBad].key
        /\ (pc = "failed" /\ error.exc # "MemoryError") =>
              /\ pos = FirstBad
              /\ returned = "NULL"
              /\ error.exc = "TypeError"
              /\ IF ~PyString_Check(items[FirstBad].key)
                 THEN error.ob = items[FirstBad].key /\ error.expected = "str"
                 ELSE error.ob = items[FirstBad].value /\ error.expected = "Member"

\* The second item has a value that is no Member and the third a key that
\* is no string: the error names the second item's value.
C9_Witness ==
    /\ pc = "failed"
    /\ Len(items) = 4
    /\ PyString_Check(items[2].key) /\ ~Member_Check(items[2].value)
    /\ ~PyString_Check(items[3].key)
    /\ error.ob = items[2].value
    /\ error.expected = "Member"
    /\ member_count = 1
    /\ returned = "NULL"

\* The references the items seq[1 .. k] hold and the slots they fill add.
RefsAfter(k) ==
    [ o \in Objects(members) |->
        DictRefs(members)[o]
        + Cardinality({ i \in 1 .. k : items[i].key = o })
        + Cardinality({ i \in 1 .. k : items[i].value = o }) ]

\* C10 as the spec states it: on a mapping with a malformed item no entry
\* array is allocated and no item is inserted or retained.
C10_RejectedBeforeBuild ==
    HasMalformed =>
        /\ array_state = "none"
        /\ member_count = 0
        /\ Occupied = {}
        /\ refcnt = DictRefs(members)

\* C10, amended: a mapping with a malformed item is rejected before a map
\* is returned, and not before one is built.  The entry array is allocated,
\* the items before the first malformed one are inserted and retained, in
\* order, and that item and the items after it are not.
C10_RejectedBeforeReturn ==
    HasMalformed =>
        /\ returned # "self"
        /\ pc = "loop" =>
              /\ array_state = "live"
              /\ pos < FirstBad
              /\ member_count = pos
              /\ { entries[b].name : b \in Occupied } = { items[i].key : i \in 1 .. pos }
              /\ refcnt = RefsAfter(pos)
        /\ (pc = "failed" /\ error.exc = "TypeError") =>
              /\ pos = FirstBad
              /\ member_count = FirstBad - 1

\* The map holds the two items that precede a malformed third item, and the
\* third item is the next that PyDict_Next hands out.
C10_Witness ==
    /\ HasMalformed
    /\ FirstBad = 3
    /\ pc = "loop"
    /\ pos = 2
    /\ array_state = "live"
    /\ Cardinality(Occupied) = 2
    /\ refcnt = RefsAfter(2)
    /\ refcnt # DictRefs(members)

\* The references the slots of the entry array hold to object o: one for
\* each name pointer and one for each member pointer that points to it.
Held(o) ==
    Cardinality({ b \in DOMAIN entries : entries[b].name # NULL /\ entries[b].name = o })
    + Cardinality({ b \in DOMAIN entries : entries[b].member # NULL /\ entries[b].member = o })

\* C11 -- Ownership balance: through every run of lookups, traversals and
\* clears of a built table that ends with ClassMap_dealloc, every object
\* carries exactly one reference of the table for each slot pointer that
\* holds it (retained once at insertion, never released while a slot holds
\* it); after the deallocation every such reference has been released once,
\* no slot is occupied, and the entry array, live until then, is freed.
C11_OwnershipBalance ==
    /\ \A o \in DOMAIN refcnt : refcnt[o] = DictRefs(members)[o] + Held(o)
    /\ pc \in {"loop", "built", "hung"} => array_state = "live" /\ self_state = "live"
    /\ pc = "dead" =>
          /\ Occupied = {}
          /\ refcnt = DictRefs(members)
          /\ array_state = "freed"
          /\ self_state = "freed"

\* A table of three names, two of them with the same member, was looked
\* up, traversed and cleared and then deallocated.
C11_Witness ==
    /\ pc = "dead"
    /\ clears > 0
    /\ traverse.visits # <<>>
    /\ lookup.member \in MemberPool
    /\ Len(items) = 3
    /\ \E i, j \in DOMAIN items : i # j /\ items[i].value = items[j].value

\* C12 -- Clear and traverse are idempotent and order-independent: a
\* ClassMap_clear after a first one changes no slot and no reference
\* count; a ClassMap_traverse changes nothing of the table; in every
\* interleaving of whole clear and traverse calls no clear takes a
\* reference count below what the dict itself holds, and every pointer a
\* traversal visits is one a slot holds, with its reference, at that time.
C12_ClearTraverseIdempotent ==
    [][ /\ (clears > 0 /\ Clear) => UNCHANGED <<map_vars, refcnt>>
        /\ Clear => \A o \in DOMAIN refcnt : refcnt'[o] = DictRefs(members)[o]
        /\ (traverse' # traverse /\ \E visitor \in Visitors : Traverse(visitor)) =>
              /\ UNCHANGED <<map_vars, refcnt, array_state, self_state>>
              /\ \A k \in DOMAIN traverse'.visits :
                    LET v == traverse'.visits[k]
                    IN  /\ v.ob # NULL
                        /\ entries[v.slot][v.field] = v.ob
                        /\ refcnt[v.ob] > DictRefs(members)[v.ob]
      ]_vars

\* A table of three names was cleared twice and traversed after a clear,
\* the visitor having nothing left to see.
C12_Witness ==
    /\ pc = "built"
    /\ clears = 2
    /\ traverse.called
    /\ traverse.visits = <<>>
    /\ Len(items) = 3

\* The call of thread t made alone on the table.
Alone(t) ==
    ClassMap_LookupMember(entries, allocated, member_count, refcnt, threads[t].name, NULL, 77)

\* C13 -- Concurrent lookups on a frozen table are race-free: with the
\* passes of the loops of several ClassMap_LookupMember calls interleaved
\* in any order, no pass writes the entry array, allocated, member_count or
\* a reference count, and every call that has returned left in member and
\* index what the same call leaves when it runs alone.
C13_ConcurrentLookups ==
    /\ [](\A t \in DOMAIN threads :
            threads[t].at = "done" =>
                /\ Alone(t).done
                /\ threads[t].member = Alone(t).member
                /\ threads[t].index = Alone(t).index)
    /\ [][ (\E t \in 1 .. MaxThreads : LookupStep(t)) => UNCHANGED <<map_vars, refcnt>> ]_vars

\* Two calls for names that collide in a table of three: one has found its
\* name in a slot that is not its first, the other is still in the loop
\* past its first slot.
C13_Witness ==
    /\ Len(threads) = 2
    /\ member_count = 3
    /\ threads[1].at = "done"
    /\ threads[1].member # NULL
    /\ threads[1].bucket # FirstBucket(threads[1].name)
    /\ threads[2].at = "loop"
    /\ threads[2].bucket # FirstBucket(threads[2].name)

\* The slots examined so far by the lookup's probing loop.
path == probe.lookup_path

Slots == 0 .. probe.mask

\* The hash as the loop holds it when it examines position i of the path.
RECURSIVE HashAt(_)
HashAt(i) == IF i = 1 THEN probe.hash ELSE lookup_next_hash(HashAt(i - 1))

\* C14 as stated -- no slot is examined a second time while some slot has
\* not yet been examined.
C14_NoRevisit ==
    pc = "probe" =>
        \A i, j \in DOMAIN path :
            (i < j /\ path[i] = path[j]) => { path[k] : k \in 1 .. j - 1 } = Slots

\* C14 -- Probe sequence: for every hash and every power-of-two capacity,
\* from the pass on at which hash >>= 5 has left 0 (at most 7 passes), the
\* sequence examines every slot exactly once in any run of capacity
\* consecutive passes, so every slot is examined within that many passes
\* more; before that pass a slot may be examined again while others have
\* not been.
C14_FullCycleOnceShifted ==
    pc = "probe" =>
        /\ \A i, j \in DOMAIN path :
              (i < j /\ j - i <= probe.mask /\ HashAt(i) = <<0, 0>>) => path[i] # path[j]
        /\ Len(path) >= ShiftsToZero(probe.hash) + probe.mask + 1 => { path[k] : k \in DOMAIN path } = Slots

\* A hash with its top bits set was followed in a table of 32 slots for its
\* seven shifts and once around the table, and had come back to a slot
\* before it had seen all of them.
C14_Witness ==
    /\ pc = "probe"
    /\ probe.mask = 31
    /\ probe.hash[1] = 65535
    /\ Len(path) = ShiftsToZero(probe.hash) + probe.mask + 2
    /\ ShiftsToZero(probe.hash) = 7
    /\ ~C14_NoRevisit

\* C16 -- Builder and lookup use the identical probe recurrence: for every
\* hash and every mask the slots insert_member examines and the slots
\* ClassMap_LookupMember examines are equal position by position, from the
\* initial bucket hash & mask on, and so are the bucket and the shifted
\* hash each loop holds for its next pass.
C16_SameRecurrence ==
    pc = "probe" =>
        /\ probe.insert_path = probe.lookup_path
        /\ probe.insert_at = probe.lookup_at
        /\ Len(path) >= 1 => path[1] = HashAndMask(probe.hash, probe.mask)

\* Both loops have been followed through the seven shifts of a hash with
\* bits in both halves, over more than one slot of a table of 16.
C16_Witness ==
    /\ pc = "probe"
    /\ probe.mask = 15
    /\ probe.hash[1] = 4660
    /\ probe.hash[2] = 65535
    /\ Len(probe.insert_path) > 8
    /\ Len(probe.lookup_path) > 8
    /\ Cardinality({ probe.insert_path[k] : k \in 1 .. 8 }) > 4

\* Every slot on the probe sequence from (bucket, hash) up to the first
\* arrival at slot target is occupied.
RECURSIVE OccupiedUpTo(_, _, _, _)
OccupiedUpTo(bucket, hash, target, seen) ==
    IF bucket = target THEN TRUE
    ELSE IF entries[bucket].name = NULL THEN FALSE
    ELSE IF <<bucket, hash>> \in seen THEN FALSE
    ELSE OccupiedUpTo(lookup_next_bucket(bucket, hash, allocated - 1), lookup_next_hash(hash),
                      target, seen \cup {<<bucket, hash>>})

\* The lookup's probing loop for name leaves at an empty slot.
EndsAtEmpty(name) ==
    lookup_probe(entries, allocated - 1, name, FirstBucket(name), pystr_hash(name), {}).exit = "empty"

\* C15 -- Probe-path invariant: in every state during and after the
\* construction, for every occupied slot, every slot before it on the
\* probe sequence of its key's hash is occupied; and whenever the probe
\* sequence of a name comes to an empty slot, no slot holds an equal key.
C15_ProbePath ==
    (array_state = "live" /\ clears = 0) =>
        /\ \A b \in Occupied :
              OccupiedUpTo(FirstBucket(entries[b].name), pystr_hash(entries[b].name), b, {})
        /\ \A name \in LookupNames :
              EndsAtEmpty(name) => \A b \in Occupied : ~pystr_equal(name, entries[b].name)

\* Three keys with the same first bucket are in the table, so one lies two
\* passes down its probe sequence, and a name with that first bucket that
\* is not stored comes to an empty slot only after them.
C15_Witness ==
    /\ array_state = "live"
    /\ clears = 0
    /\ Cardinality({ b \in Occupied : FirstBucket(entries[b].name) = 1 }) = 3
    /\ \E name \in LookupNames :
          /\ FirstBucket(name) = 1
          /\ EndsAtEmpty(name)
          /\ \A b \in Occupied : ~pystr_equal(name, entries[b].name)

\* C17 -- Key/value pairing: after every completed insert_member,
\* ClassMap_clear and ClassMap_traverse call, and after ClassMap_dealloc,
\* every slot has its name and its member both present or both absent.
C17_Pairing ==
    \A b \in DOMAIN entries : (entries[b].name = NULL) <=> (entries[b].member = NULL)

\* A table of two names was traversed while they were in it and then
\* cleared: two slots have lost their name and their member together.
C17_Witness ==
    /\ pc = "built"
    /\ clears = 1
    /\ member_count = 2
    /\ Len(traverse.visits) = 4
    /\ \A b \in DOMAIN entries : entries[b].name = NULL /\ entries[b].member = NULL

\* The visits a traversal that is not stopped makes: the name and the
\* member of every occupied slot.
AllVisits ==
    { Visit(b, "name", entries[b].name) : b \in Occupied }
    \cup { Visit(b, "member", entries[b].member) : b \in Occupied }

\* C18 -- Traversal completeness: a ClassMap_traverse whose visitor returns
\* 0 at every call it gets visits the name and the member of every occupied
\* slot exactly once each, nothing of an empty slot, and returns 0; one
\* whose visitor returns a non-zero value at its call k makes exactly k
\* visits, all different and of occupied slots, and returns that value.
\* (A traversal that leaves the record of the last one as it was is a step
\* that changes nothing, and holds as one.)
C18_TraversalComplete ==
    [][ \A visitor \in Visitors :
          (traverse' # traverse /\ Traverse(visitor)) =>
            LET vs == traverse'.visits
            IN  /\ \A i, j \in DOMAIN vs : i # j => vs[i] # vs[j]
                /\ { vs[k] : k \in DOMAIN vs } \subseteq AllVisits
                /\ IF visitor.at = 0
                   THEN { vs[k] : k \in DOMAIN vs } = AllVisits /\ traverse'.ret = 0
                   ELSE Len(vs) = visitor.at /\ traverse'.ret = visitor.ret
      ]_vars

\* A traversal of a table of three names was stopped by its visitor at the
\* member of the second occupied slot, with the visitor's value for that
\* call.
C18_Witness ==
    /\ pc = "built"
    /\ member_count = 3
    /\ clears = 0
    /\ Len(traverse.visits) = 4
    /\ traverse.visits[4].field = "member"
    /\ traverse.ret = VisitRet(4)

\* C19 -- Failed construction leaks nothing: when ClassMap_new has failed
\* (members is no dict, the object or the entry array cannot be allocated,
\* or an item fails its type check after k insertions) it has returned no
\* map, no slot holds a pointer, every reference count is back at what the
\* dict itself holds, the object is not live, and the entry array is freed
\* if it was allocated and was never there if not.
C19_FailureLeaksNothing ==
    pc = "failed" =>
        /\ returned = "NULL"
        /\ self_state # "live"
        /\ Occupied = {}
        /\ refcnt = DictRefs(members)
        /\ array_state = (IF error.exc = "TypeError" /\ members.is_dict THEN "freed" ELSE "none")

\* The fourth item failed its type check after three insertions, two of
\* them of the same member.
C19_Witness ==
    /\ pc = "failed"
    /\ member_count = 3
    /\ pos = 4
    /\ error.exc = "TypeError"
    /\ items[1].value = items[3].value
    /\ array_state = "freed"
    /\ refcnt = DictRefs(members)

\* C20 -- State after clear: after ClassMap_clear on a built table every
\* slot has a null name and a null member, the clear has left allocated and
\* member_count as they were, and every ClassMap_LookupMember, also for a
\* name that was inserted, finds its first slot empty, returns, and leaves
\* the caller's member and index as they were.
C20_AfterClear ==
    /\ []((pc = "built" /\ clears > 0) =>
            /\ \A b \in DOMAIN entries : entries[b].name = NULL /\ entries[b].member = NULL
            /\ allocated = new_allocated(Len(items))
            /\ member_count = Len(items))
    /\ [][ Clear => UNCHANGED <<allocated, member_count>> ]_vars
    /\ [][ (clears > 0 /\ \E name \in KeyPool : Lookup(name, D9, 77)) =>
              /\ pc' = "built"
              /\ entries[FirstBucket(lookup'.name)].name = NULL
              /\ lookup'.member = D9
              /\ lookup'.index = 77 ]_vars

\* A name that was found before the clear of a table of three is looked up
\* after it and is not found.
C20_Witness ==
    /\ pc = "built"
    /\ clears = 1
    /\ member_count = 3
    /\ \E i \in DOMAIN items : items[i].key = lookup.name
    /\ lookup.member = D9
    /\ lookup.index = 77

====
